---- MODULE Spec2Model ----
(***************************************************************************)
(* Model of the PDF ingestion pipeline of src/pdf_extractor.py:            *)
(*   PDFExtractor.embed_texts, split_into_chunks,                          *)
(*   get_pdf_content_from_supabase, process_pdf_and_store_embeddings,      *)
(*   get_unprocessed_pdfs and process_all_unprocessed_pdfs.                *)
(*                                                                         *)
(* A Python str is a sequence of one-character strings; a list is a        *)
(* sequence.  The specifications share the variables:                      *)
(*   SpecChunk  one call of split_into_chunks on a drawn text,             *)
(*   SpecEmbed  one call of embed_texts on a drawn list of texts,          *)
(*   Spec       process_all_unprocessed_pdfs run repeatedly over the       *)
(*              project_knowledge table,                                   *)
(*   SpecDb     the same runs when status updates can be refused,          *)
(*   SpecFetch  one call of get_pdf_content_from_supabase.                 *)
(***************************************************************************)
EXTENDS Integers, Sequences, FiniteSets, TLC

VARIABLES
    text,                \* split_into_chunks: argument text
    max_chunk_size,      \* split_into_chunks: argument max_chunk_size
    chunks,              \* split_into_chunks: returned list
    chunkPc,             \* "call" before the call, "return" after it
    texts,               \* embed_texts: argument texts
    outcome,             \* embed_texts: what the service did on each batch
    embedRet,            \* embed_texts: how the call ended
    embedPc,             \* "call" before the call, "return" after it
    fetchPath,           \* get_pdf_content_from_supabase: argument file_path
    tempFiles,           \* temp_<basename> files on the local disk
    fetchRet,            \* get_pdf_content_from_supabase: how the call ended
    fetchPc,             \* "call" before the call, "return" after it
    knowledge,           \* table project_knowledge, by record id
    project_embeddings,  \* table project_embeddings, in insertion order
    scratch,             \* temp_<basename> files on the local disk
    pc,                  \* process_all_unprocessed_pdfs: "idle", "loop", "done"
    unprocessed_pdfs,    \* list returned by get_unprocessed_pdfs
    idx,                 \* number of records of that list already handled
    threw,               \* ids whose processing raised in the current scan
    insertThrew,         \* ids of which a row insert raised in the current scan
    escaped,             \* an exception left process_all_unprocessed_pdfs
    scans,               \* scans started so far
    lastCall             \* what the latest such call did

chunkVars == <<text, max_chunk_size, chunks, chunkPc>>
embedVars == <<texts, outcome, embedRet, embedPc>>
orchVars == <<knowledge, project_embeddings, scratch, pc, unprocessed_pdfs, idx,
              threw, insertThrew, escaped, scans, lastCall>>
fetchVars == <<fetchPath, tempFiles, fetchRet, fetchPc>>
vars == <<chunkVars, embedVars, fetchVars, orchVars>>

None == "None"

\* lastCall before any call of process_pdf_and_store_embeddings
NoCall == [knowledge_id |-> 0]

----------------------------------------------------------------------------
(* Bounds of the model.                                                    *)

\* longest text drawn for split_into_chunks
MaxLen == 5
\* largest max_chunk_size drawn for split_into_chunks
MaxChunk == 6
\* longest list of texts drawn for embed_texts
MaxTexts == 300

(* Program constants.                                                      *)

\* range(0, len(texts), 100) and texts[i:i+100]
BATCH_SIZE == 100
\* [[0.0] * 1536] * len(batch)
ZERO_DIM == 1536
\* dimension of a vector of model "text-embedding-3-small"
MODEL_DIM == 1536
\* max_chunk_size: int = 1000
DEFAULT_MAX_CHUNK_SIZE == 1000

----------------------------------------------------------------------------
(* The parts of the state a specification does not use stay as they are.   *)

OrchIdle ==
    /\ knowledge = <<>>
    /\ project_embeddings = <<>>
    /\ scratch = {}
    /\ pc = "off"
    /\ unprocessed_pdfs = <<>>
    /\ idx = 0
    /\ threw = {}
    /\ insertThrew = {}
    /\ escaped = FALSE
    /\ scans = 0
    /\ lastCall = NoCall

EmbedIdle ==
    /\ texts = <<>>
    /\ outcome = <<>>
    /\ embedRet = None
    /\ embedPc = "off"

FetchIdle ==
    /\ fetchPath = 0
    /\ tempFiles = {}
    /\ fetchRet = None
    /\ fetchPc = "off"

ChunkIdle ==
    /\ text = <<>>
    /\ max_chunk_size = DEFAULT_MAX_CHUNK_SIZE
    /\ chunks = <<>>
    /\ chunkPc = "off"

----------------------------------------------------------------------------
(* Python str operations.                                                  *)

\* the characters str.strip() removes (those that occur in the modelled texts)
Whitespace == {" ", "\n", "\t"}

\* index of the first character of s, from i on, that is not whitespace
RECURSIVE FirstKept(_, _)
FirstKept(s, i) ==
    IF i > Len(s) \/ s[i] \notin Whitespace THEN i ELSE FirstKept(s, i + 1)

\* index of the last character of s, up to i, that is not whitespace
RECURSIVE LastKept(_, _)
LastKept(s, i) ==
    IF i < 1 \/ s[i] \notin Whitespace THEN i ELSE LastKept(s, i - 1)

\* s.strip(): whitespace is dropped from both ends
Strip(s) == SubSeq(s, FirstKept(s, 1), LastKept(s, Len(s)))

\* the separator '. '
Separator == <<".", " ">>

\* Where '. ' occurs in t.  Two occurrences never overlap (the separator's
\* first and second characters differ), so the left-to-right scan of
\* str.split finds exactly these.
SepPositions(t) == {i \in 1..(Len(t) - 1) : t[i] = "." /\ t[i + 1] = " "}

NthPos(P, k) == CHOOSE p \in P : Cardinality({q \in P : q < p}) = k - 1

\* t.split('. '): one more piece than there are separators
Split(t) ==
    LET P == SepPositions(t)
        n == Cardinality(P)
        start(k) == IF k = 1 THEN 1 ELSE NthPos(P, k - 1) + 2
        stop(k) == IF k = n + 1 THEN Len(t) ELSE NthPos(P, k) - 1
    IN  [k \in 1..(n + 1) |-> SubSeq(t, start(k), stop(k))]

----------------------------------------------------------------------------
(* PDFExtractor.split_into_chunks                                          *)

\* if current_chunk.strip(): chunks.append(current_chunk.strip())
CloseChunk(chunkList, current_chunk) ==
    IF Strip(current_chunk) # <<>>
    THEN Append(chunkList, Strip(current_chunk))
    ELSE chunkList

\* AddSentence with the overflowing accumulator thrown away instead of closed
AddSentenceDropping(acc, raw, maxSize) ==
    LET sentence == Strip(raw) \o Separator
    IN  IF Len(acc.current_chunk) + Len(sentence) > maxSize
        THEN [chunks |-> acc.chunks, current_chunk |-> sentence]
        ELSE [chunks |-> acc.chunks, current_chunk |-> acc.current_chunk \o sentence]

\* one iteration of "for sentence in sentences"
AddSentence(acc, raw, maxSize) ==
    LET sentence == Strip(raw) \o Separator
    IN  IF Len(acc.current_chunk) + Len(sentence) > maxSize
        THEN [chunks |-> CloseChunk(acc.chunks, acc.current_chunk),
              current_chunk |-> sentence]
        ELSE [chunks |-> acc.chunks, current_chunk |-> acc.current_chunk \o sentence]

RECURSIVE ChunkLoop(_, _, _, _)
ChunkLoop(sentences, i, acc, maxSize) ==
    IF i > Len(sentences)
    THEN acc
    ELSE ChunkLoop(sentences, i + 1, AddSentence(acc, sentences[i], maxSize), maxSize)

split_into_chunks(t, maxSize) ==
    LET acc == ChunkLoop(Split(t), 1, [chunks |-> <<>>, current_chunk |-> <<>>], maxSize)
    IN  CloseChunk(acc.chunks, acc.current_chunk)

----------------------------------------------------------------------------
(* PDFExtractor.embed_texts                                                *)

\* one row of the returned array: its length and what its components are
ServiceVector(t) == [dim |-> MODEL_DIM, val |-> <<"embedding", t>>]
SurplusVector == [dim |-> MODEL_DIM, val |-> <<"surplus">>]
ZeroVector == [dim |-> ZERO_DIM, val |-> <<"zero">>]

\* What a batch call can do: answer one vector per input, raise, or answer
\* with one vector too few or one too many.
Outcomes == {"ok", "raise", "short", "long"}

\* [d.embedding for d in response.data]
Response(batch, o) ==
    LET full == [j \in 1..Len(batch) |-> ServiceVector(batch[j])]
    IN  CASE o = "ok" -> full
          [] o = "short" -> SubSeq(full, 1, Len(full) - 1)
          [] o = "long" -> Append(full, SurplusVector)

\* BatchFailed without the "* len(batch)"
BatchFailedOnce(batch) == <<ZeroVector>>

\* except: embeddings.extend([[0.0] * 1536] * len(batch))
BatchFailed(batch) == [j \in 1..Len(batch) |-> ZeroVector]

\* one iteration of "for i in range(0, len(texts), 100)"
EmbedBatch(acc, batch, o) ==
    [embeddings |-> acc.embeddings \o
                    (IF o = "raise" THEN BatchFailed(batch) ELSE Response(batch, o)),
     calls |-> Append(acc.calls, batch)]

\* NumBatches for range(0, len(texts) + 1, 100)
NumBatchesPlusOne(n) == n \div BATCH_SIZE + 1

\* the number of values of i in range(0, len(texts), 100)
NumBatches(n) == (n + BATCH_SIZE - 1) \div BATCH_SIZE

\* texts[i:i+100] for the b-th value of i
Batch(ts, b) ==
    SubSeq(ts, (b - 1) * BATCH_SIZE + 1,
           IF b * BATCH_SIZE < Len(ts) THEN b * BATCH_SIZE ELSE Len(ts))

RECURSIVE EmbedLoop(_, _, _, _)
EmbedLoop(ts, b, outs, acc) ==
    IF b > NumBatches(Len(ts))
    THEN acc
    ELSE EmbedLoop(ts, b + 1, outs, EmbedBatch(acc, Batch(ts, b), outs[b]))

\* np.array(embeddings): rows of differing length do not make an array
NpArrayRaises(rows) == \E i \in 1..Len(rows) : rows[i].dim # rows[1].dim

\* the call: raised tells whether an exception reached the caller, vectors is
\* the returned array, calls the batches sent to the service, in order
embed_texts(ts, outs) ==
    LET acc == EmbedLoop(ts, 1, outs, [embeddings |-> <<>>, calls |-> <<>>])
    IN  IF NpArrayRaises(acc.embeddings)
        THEN [raised |-> TRUE, vectors |-> <<>>, calls |-> acc.calls]
        ELSE [raised |-> FALSE, vectors |-> acc.embeddings, calls |-> acc.calls]

----------------------------------------------------------------------------
\* "Alpha. Beta.\nGamma.\n": page texts "Alpha. Beta." and "Gamma.", each
\* followed by a newline
ScenarioAText ==
    <<"A", "l", "p", "h", "a", ".", " ", "B", "e", "t", "a", ".", "\n",
      "G", "a", "m", "m", "a", ".", "\n">>

----------------------------------------------------------------------------
(* The datastore and the object storage.                                   *)

\* records of table project_knowledge
NumRecords == 3
\* runs of process_all_unprocessed_pdfs
MaxScans == 2

Records == 1..NumRecords

Run(c, n) == [i \in 1..n |-> c]

\* a page of two sentences that do not fit one chunk of 1000 together
LongPage == Run("a", 499) \o <<".", " ">> \o Run("b", 499) \o <<".">>

\* The PDF stored at a record's file_path, as the text of its pages (<<>> for
\* a page without extractable text): the two pages "Alpha. Beta." and
\* "Gamma.", a scan that has no extractable text at all, one long page, or a
\* blank page followed by "ab".
StoredPdf(k) ==
    CASE k % 4 = 1 -> <<SubSeq(ScenarioAText, 1, 12), SubSeq(ScenarioAText, 14, 19)>>
      [] k % 4 = 2 -> <<<<>>, <<>>>>
      [] k % 4 = 3 -> <<LongPage>>
      [] OTHER -> <<<<>>, <<"a", "b">>>>

\* a row of project_knowledge as it is created, unprocessed
NewRecord(k) ==
    [id |-> k, project_id |-> "project", file_path |-> k, file_name |-> k,
     processed |-> FALSE, processed_at |-> None, chunks_count |-> None,
     processing_error |-> None]

----------------------------------------------------------------------------
(* PDFExtractor.get_pdf_content_from_supabase                              *)

\* How a call can go: the download raises, the download answers None, the
\* scratch file cannot be created, writing it fails, opening it as a PDF
\* fails, extracting a page fails, or every step succeeds.
FetchOutcomes ==
    {"download_raises", "absent", "create_fails", "write_fails", "open_fails",
     "extract_fails", "ok"}

\* ExtractText that adds the newline for a page without text too
RECURSIVE ExtractTextEveryPage(_)
ExtractTextEveryPage(pages) ==
    IF pages = <<>>
    THEN <<>>
    ELSE Head(pages) \o <<"\n">> \o ExtractTextEveryPage(Tail(pages))

\* for page in pdf.pages: if page_text: text_content += page_text + "\n"
RECURSIVE ExtractText(_)
ExtractText(pages) ==
    IF pages = <<>>
    THEN <<>>
    ELSE (IF Head(pages) # <<>> THEN Head(pages) \o <<"\n">> ELSE <<>>)
         \o ExtractText(Tail(pages))

\* The call: the returned text, and what became of the scratch file
\* temp_<basename>: never created, left on the disk, or removed.
get_pdf_content_from_supabase(file_path, fo) ==
    [text |-> IF fo = "ok" THEN ExtractText(StoredPdf(file_path)) ELSE <<>>,
     temp |-> CASE fo \in {"download_raises", "absent", "create_fails"} -> "none"
                [] fo \in {"write_fails", "open_fails", "extract_fails"} -> "left"
                [] fo = "ok" -> "removed"]

\* the temp_ files on the disk after a call that left the file name as temp
\* says: open(temp_path, 'wb') creates it, os.remove(temp_path) removes it
TempFilesAfter(files, name, temp) ==
    CASE temp = "none" -> files
      [] temp = "left" -> files \cup {name}
      [] temp = "removed" -> files \ {name}

----------------------------------------------------------------------------
(* PDFExtractor.process_pdf_and_store_embeddings                           *)

NoContentError == "No text content extracted from PDF"
ArrayError == "inhomogeneous shape"

\* Inserted that first deletes the rows of the knowledge ids of the new rows
InsertedReplacing(table, rows) ==
    SelectSeq(table, LAMBDA r : \A i \in 1..Len(rows) :
                                   rows[i].knowledge_id # r.knowledge_id) \o rows

\* insert({...}).execute(), once per row that is not refused
Inserted(table, rows) == table \o rows

\* the dictionary given to insert() for the i-th pair of zip(), i from 0
EmbeddingRow(pdf_record, text_chunks, vectors, i) ==
    [project_id |-> pdf_record.project_id, knowledge_id |-> pdf_record.id,
     content_chunk |-> text_chunks[i + 1], embedding |-> vectors[i + 1],
     chunk_index |-> i]

\* StoredRows when the first refused insert ends the loop
StoredRowsUntilRefused(attempted, failed) ==
    SelectSeq(attempted, LAMBDA r : \A i \in failed : r.chunk_index < i)

\* the rows the loop stores when the inserts of the indexes in failed raise:
\* the except clause inside the loop prints and the loop goes on
StoredRows(attempted, failed) ==
    SelectSeq(attempted, LAMBDA r : r.chunk_index \notin failed)

\* update({'processed': True, 'processed_at': 'now()', 'chunks_count': n})
SuccessUpdate(rec, n) ==
    [rec EXCEPT !.processed = TRUE, !.processed_at = "now()", !.chunks_count = n]

\* FailureUpdate that writes processed_at too
FailureUpdateStamping(rec, err) ==
    [rec EXCEPT !.processed = FALSE, !.processing_error = err,
                !.processed_at = "now()"]

\* FailureUpdate that does not write the error message
FailureUpdateNoError(rec, err) == [rec EXCEPT !.processed = FALSE]

\* update({'processed': False, 'processing_error': str(e)})
FailureUpdate(rec, err) ==
    [rec EXCEPT !.processed = FALSE, !.processing_error = err]

\* The call, for one way the environment can go: fo is how the fetch goes,
\* outs what the embedding service does on each batch, insertRaises the chunk
\* indexes whose insert raises.  updates names the status update the call
\* ends with; ProcessNext applies it to the record (the datastore performs
\* the status updates it is sent).
process_pdf_and_store_embeddings(pdf_record, fo, outs, insertRaises) ==
    LET fetched == get_pdf_content_from_supabase(pdf_record.file_path, fo)
        text_content == fetched.text
        text_chunks == split_into_chunks(text_content, DEFAULT_MAX_CHUNK_SIZE)
        emb == embed_texts(text_chunks, outs)
        \* zip(text_chunks, embeddings) stops at the shorter of the two
        n == IF Len(emb.vectors) < Len(text_chunks)
             THEN Len(emb.vectors) ELSE Len(text_chunks)
        attempted == [i \in 1..n |->
                         EmbeddingRow(pdf_record, text_chunks, emb.vectors, i - 1)]
        failed == {i \in 0..(n - 1) : i \in insertRaises}
        base == [knowledge_id |-> pdf_record.id, fetch |-> fo, temp |-> fetched.temp,
                 text_content |-> text_content]
    IN  IF text_content = <<>>
        THEN base @@ [text_chunks |-> <<>>, outs |-> <<>>, vectors |-> <<>>,
                      embed_calls |-> 0, attempted |-> <<>>, insert_raised |-> {},
                      stored |-> <<>>, raised |-> TRUE, error |-> NoContentError,
                      updates |-> <<"failure">>]
        ELSE IF emb.raised
        THEN base @@ [text_chunks |-> text_chunks, outs |-> outs, vectors |-> <<>>,
                      embed_calls |-> Len(emb.calls), attempted |-> <<>>,
                      insert_raised |-> {}, stored |-> <<>>, raised |-> TRUE,
                      error |-> ArrayError, updates |-> <<"failure">>]
        ELSE base @@ [text_chunks |-> text_chunks, outs |-> outs,
                      vectors |-> emb.vectors, embed_calls |-> Len(emb.calls),
                      attempted |-> attempted, insert_raised |-> failed,
                      stored |-> StoredRows(attempted, failed),
                      raised |-> FALSE, error |-> None, updates |-> <<"success">>]

\* what is kept of a call for the claims: all but the texts and rows it built
CallLog(call) ==
    [f \in DOMAIN call \ {"text_content", "attempted", "stored"} |-> call[f]]
        @@ [text_len |-> Len(call.text_content), inserted |-> Len(call.stored)]

\* the chunks of the record's text when the fetch goes as fo
ChunksFor(pdf_record, fo) ==
    LET t == get_pdf_content_from_supabase(pdf_record.file_path, fo).text
    IN  IF t = <<>> THEN <<>> ELSE split_into_chunks(t, DEFAULT_MAX_CHUNK_SIZE)

----------------------------------------------------------------------------
(* PDFExtractor.get_unprocessed_pdfs and process_all_unprocessed_pdfs      *)

\* get_unprocessed_pdfs without the .eq('processed', False)
get_unprocessed_pdfsUnfiltered(table, q) ==
    IF q = "raise" THEN <<>> ELSE [k \in 1..NumRecords |-> table[k]]

\* select('*').eq('processed', False): the rows in id order, or [] when the
\* query raises
get_unprocessed_pdfs(table, q) ==
    IF q = "raise"
    THEN <<>>
    ELSE SelectSeq([k \in 1..NumRecords |-> table[k]], LAMBDA r : ~r.processed)

\* ExceptionEscapes without the try/except around the call
ExceptionEscapesUncaught(raised) == raised

\* try: self.process_pdf_and_store_embeddings(...) except Exception: print
\* whether an exception of the call leaves process_all_unprocessed_pdfs
ExceptionEscapes(raised) == FALSE

OrchInit ==
    /\ knowledge = [k \in Records |-> NewRecord(k)]
    /\ project_embeddings = <<>>
    /\ scratch = {}
    /\ pc = "idle"
    /\ unprocessed_pdfs = <<>>
    /\ idx = 0
    /\ threw = {}
    /\ insertThrew = {}
    /\ escaped = FALSE
    /\ scans = 0
    /\ lastCall = NoCall

\* unprocessed_pdfs = self.get_unprocessed_pdfs()
StartScan ==
    /\ pc \in {"idle", "done"}
    /\ ~escaped
    /\ scans < MaxScans
    /\ \E q \in {"ok", "raise"} :
          unprocessed_pdfs' = get_unprocessed_pdfs(knowledge, q)
    /\ pc' = "loop"
    /\ idx' = 0
    /\ threw' = {}
    /\ insertThrew' = {}
    /\ scans' = scans + 1
    /\ UNCHANGED <<knowledge, project_embeddings, scratch, escaped, lastCall>>
    /\ UNCHANGED <<chunkVars, embedVars, fetchVars>>

\* one iteration of "for pdf_record in unprocessed_pdfs": the whole call of
\* process_pdf_and_store_embeddings and the handling of what it raises
ProcessNext ==
    /\ pc = "loop"
    /\ idx < Len(unprocessed_pdfs)
    /\ LET pdf_record == unprocessed_pdfs[idx + 1]
           k == pdf_record.id
       IN  \E fo \in FetchOutcomes :
           \E outs \in [1..NumBatches(Len(ChunksFor(pdf_record, fo))) -> Outcomes] :
           \E insertRaises \in SUBSET (0..(Len(ChunksFor(pdf_record, fo)) - 1)) :
              LET call == process_pdf_and_store_embeddings(pdf_record, fo, outs, insertRaises)
              IN  /\ lastCall' = CallLog(call)
                  /\ project_embeddings' = Inserted(project_embeddings, call.stored)
                  /\ knowledge' =
                        [knowledge EXCEPT ![k] =
                            IF call.raised
                            THEN FailureUpdate(@, call.error)
                            ELSE SuccessUpdate(@, Len(call.text_chunks))]
                  /\ scratch' = TempFilesAfter(scratch, pdf_record.file_name, call.temp)
                  /\ threw' = IF call.raised THEN threw \cup {k} ELSE threw
                  /\ insertThrew' = IF call.insert_raised # {}
                                    THEN insertThrew \cup {k} ELSE insertThrew
                  /\ escaped' = ExceptionEscapes(call.raised)
                  /\ pc' = IF ExceptionEscapes(call.raised) THEN "done" ELSE "loop"
    /\ idx' = idx + 1
    /\ UNCHANGED <<unprocessed_pdfs, scans, chunkVars, embedVars, fetchVars>>

\* the loop has gone through the whole list: the call returns
FinishScan ==
    /\ pc = "loop"
    /\ idx = Len(unprocessed_pdfs)
    /\ pc' = "done"
    /\ UNCHANGED <<knowledge, project_embeddings, scratch, unprocessed_pdfs, idx,
                   threw, insertThrew, escaped, scans, lastCall>>
    /\ UNCHANGED <<chunkVars, embedVars, fetchVars>>

Init == OrchInit /\ ChunkIdle /\ EmbedIdle /\ FetchIdle

Next == StartScan \/ ProcessNext \/ FinishScan

Spec == Init /\ [][Next]_vars

----------------------------------------------------------------------------
(* Specification SpecDb: process_all_unprocessed_pdfs over a datastore     *)
(* whose project_knowledge table can refuse a status update, everything    *)
(* else working.                                                           *)

\* what execute() of a status update can do: perform it, or raise and leave
\* the table as it is
UpdateOutcomes == {"ok", "raise"}

\* str(e) of the exception of a refused success update, of a refused failure
\* update
SuccessUpdateError == "success update refused"
FailureUpdateError == "failure update refused"

\* The end of the call when the status updates can be refused: updS is what
\* the success update does, updF what the failure update does.  The success
\* update is the last statement of the try block, so its exception is handled
\* like any other; the failure update runs in the except clause, so its
\* exception replaces the one being handled and the re-raise is not reached.
\* updates lists the status updates sent, applied names the one performed,
\* error is the e of the except clause, surfaced what the caller receives.
StatusUpdates(call, updS, updF) ==
    LET failing == call.raised \/ updS = "raise"
        e == IF call.raised THEN call.error ELSE SuccessUpdateError
    IN  [updates |-> IF call.raised THEN <<"failure">>
                     ELSE IF updS = "ok" THEN <<"success">>
                     ELSE <<"success", "failure">>,
         applied |-> IF ~failing THEN "success"
                     ELSE IF updF = "ok" THEN "failure" ELSE "none",
         raised |-> failing,
         error |-> IF failing THEN e ELSE None,
         surfaced |-> IF ~failing THEN None
                      ELSE IF updF = "ok" THEN e ELSE FailureUpdateError]
        @@ call

\* ProcessNext over such a datastore; the storage, the embedding service and
\* the row inserts work
ProcessNextDb ==
    /\ pc = "loop"
    /\ idx < Len(unprocessed_pdfs)
    /\ LET pdf_record == unprocessed_pdfs[idx + 1]
           k == pdf_record.id
           outs == [b \in 1..NumBatches(Len(ChunksFor(pdf_record, "ok"))) |-> "ok"]
       IN  \E updS \in UpdateOutcomes :
           \E updF \in UpdateOutcomes :
              LET call == StatusUpdates(
                              process_pdf_and_store_embeddings(pdf_record, "ok", outs, {}),
                              updS, updF)
              IN  /\ lastCall' = CallLog(call)
                  /\ project_embeddings' = Inserted(project_embeddings, call.stored)
                  /\ knowledge' =
                        [knowledge EXCEPT ![k] =
                            CASE call.applied = "success" ->
                                     SuccessUpdate(@, Len(call.text_chunks))
                              [] call.applied = "failure" ->
                                     FailureUpdate(@, call.error)
                              [] call.applied = "none" -> @]
                  /\ scratch' = TempFilesAfter(scratch, pdf_record.file_name, call.temp)
                  /\ threw' = IF call.raised THEN threw \cup {k} ELSE threw
                  /\ insertThrew' = IF call.insert_raised # {}
                                    THEN insertThrew \cup {k} ELSE insertThrew
                  /\ escaped' = ExceptionEscapes(call.raised)
                  /\ pc' = IF ExceptionEscapes(call.raised) THEN "done" ELSE "loop"
    /\ idx' = idx + 1
    /\ UNCHANGED <<unprocessed_pdfs, scans, chunkVars, embedVars, fetchVars>>

NextDb == StartScan \/ ProcessNextDb \/ FinishScan

SpecDb == Init /\ [][NextDb]_vars

----------------------------------------------------------------------------
(* Specification SpecFetch: get_pdf_content_from_supabase called once on a *)
(* drawn file path, with temp_ files of earlier calls on the disk.         *)

\* largest file path drawn
MaxPath == 4

FetchInit ==
    /\ fetchPath \in 1..MaxPath
    /\ tempFiles \in SUBSET (1..MaxPath)
    /\ fetchRet = None
    /\ fetchPc = "call"
    /\ ChunkIdle
    /\ EmbedIdle
    /\ OrchIdle

GetPdfContentCall ==
    /\ fetchPc = "call"
    /\ \E fo \in FetchOutcomes :
          LET ret == get_pdf_content_from_supabase(fetchPath, fo)
          IN  /\ fetchRet' = [outcome |-> fo, text |-> ret.text, temp |-> ret.temp]
              /\ tempFiles' = TempFilesAfter(tempFiles, fetchPath, ret.temp)
    /\ fetchPc' = "return"
    /\ UNCHANGED <<fetchPath, chunkVars, embedVars, orchVars>>

FetchNext == GetPdfContentCall

SpecFetch == FetchInit /\ [][FetchNext]_vars

----------------------------------------------------------------------------
(* Specification SpecChunk: split_into_chunks called once on a drawn text. *)

Alphabet == {"a", ".", " ", "\n"}

TextsUpTo(n) == UNION {[1..m -> Alphabet] : m \in 0..n}

ChunkInit ==
    /\ \/ text \in TextsUpTo(MaxLen) /\ max_chunk_size \in 1..MaxChunk
       \/ text = ScenarioAText /\ max_chunk_size = DEFAULT_MAX_CHUNK_SIZE
    /\ chunks = <<>>
    /\ chunkPc = "call"
    /\ EmbedIdle
    /\ FetchIdle
    /\ OrchIdle

SplitIntoChunksCall ==
    /\ chunkPc = "call"
    /\ chunks' = split_into_chunks(text, max_chunk_size)
    /\ chunkPc' = "return"
    /\ UNCHANGED <<text, max_chunk_size, embedVars, fetchVars, orchVars>>

ChunkNext == SplitIntoChunksCall

SpecChunk == ChunkInit /\ [][ChunkNext]_vars

----------------------------------------------------------------------------
(* Specification SpecEmbed: embed_texts called once on a drawn list.       *)

\* the texts are told apart by their position
TextList(n) == [i \in 1..n |-> i]

EmbedInit ==
    /\ texts \in {TextList(n) : n \in 0..MaxTexts}
    /\ outcome = <<>>
    /\ embedRet = None
    /\ embedPc = "call"
    /\ ChunkIdle
    /\ FetchIdle
    /\ OrchIdle

EmbedTextsCall ==
    /\ embedPc = "call"
    /\ \E outs \in [1..NumBatches(Len(texts)) -> Outcomes] :
          /\ outcome' = outs
          /\ embedRet' = embed_texts(texts, outs)
    /\ embedPc' = "return"
    /\ UNCHANGED <<texts, chunkVars, fetchVars, orchVars>>

EmbedNext == EmbedTextsCall

SpecEmbed == EmbedInit /\ [][EmbedNext]_vars

----------------------------------------------------------------------------
(* Claims about split_into_chunks, checked under SpecChunk.                *)

\* The sentences a chunk holds: in a chunk every sentence is closed by "."
\* and followed by " ", the last one's " " being trimmed away.
SentencesIn(chunk) ==
    LET pieces == Split(chunk \o <<" ">>)
    IN  SubSeq(pieces, 1, Len(pieces) - 1)

WellFormedChunk(chunk) ==
    LET pieces == Split(chunk \o <<" ">>)
    IN  pieces[Len(pieces)] = <<>>

RECURSIVE Flatten(_)
Flatten(ss) == IF ss = <<>> THEN <<>> ELSE Head(ss) \o Flatten(Tail(ss))

\* the units of t between the separators, each without surrounding whitespace
SentenceSequence(t) == [k \in 1..Len(Split(t)) |-> Strip(Split(t)[k])]

\* the place in Split(text) of the first sentence of the c-th chunk
FirstSentenceOf(c) ==
    1 + Len(Flatten([j \in 1..(c - 1) |-> SentencesIn(chunks[j])]))

C4_ChunkWithinMaxSize ==
    chunkPc = "return" =>
        \A c \in 1..Len(chunks) :
            \/ Len(chunks[c]) <= max_chunk_size
            \/ /\ Len(SentencesIn(chunks[c])) = 1
               /\ Len(Split(text)[FirstSentenceOf(c)]) > max_chunk_size

\* C5 as claimed: the empty text gives no chunk.
C5_EmptyTextNoChunk ==
    (chunkPc = "return" /\ text = <<>>) => chunks = <<>>

\* C6 as claimed: a non-empty text without the separator gives exactly one
\* chunk, the trimmed text.
C6_NoSeparatorOneChunk ==
    (chunkPc = "return" /\ text # <<>> /\ SepPositions(text) = {}) =>
        chunks = <<Strip(text)>>

\* C7 as claimed: a text that holds the separator and is no longer than
\* max_chunk_size gives exactly one chunk, the trimmed text.
C7_FittingTextOneChunk ==
    (chunkPc = "return" /\ SepPositions(text) # {} /\ Len(text) <= max_chunk_size) =>
        chunks = <<Strip(text)>>

----------------------------------------------------------------------------
(* Claims about embed_texts, checked under SpecEmbed.                      *)

\* the batch the i-th text is sent in
BatchOf(i) == (i - 1) \div BATCH_SIZE + 1

\* the vector the call produces for the i-th text
ProducedFor(i) ==
    IF outcome[BatchOf(i)] = "raise" THEN ZeroVector ELSE ServiceVector(texts[i])

\* C1 as claimed: whatever each batch call does, the call returns one vector
\* per text, the i-th being the one produced for the i-th text.
C1_OneVectorPerText ==
    embedPc = "return" =>
        /\ ~embedRet.raised
        /\ Len(embedRet.vectors) = Len(texts)
        /\ \A i \in 1..Len(texts) : embedRet.vectors[i] = ProducedFor(i)

\* C2: when every batch call either raises or answers one vector per text,
\* the call does not raise, every batch is sent to the service in order, the
\* slice of a batch that raised is all zero vectors of dimension 1536 and the
\* slice of a batch that answered holds the service's vectors.
C2_FailedBatchesZeroed ==
    (embedPc = "return" /\ \A b \in DOMAIN outcome : outcome[b] \in {"ok", "raise"}) =>
        /\ ~embedRet.raised
        /\ embedRet.calls = [b \in 1..NumBatches(Len(texts)) |-> Batch(texts, b)]
        /\ Len(embedRet.vectors) = Len(texts)
        /\ \A i \in 1..Len(texts) :
              IF outcome[BatchOf(i)] = "raise"
              THEN embedRet.vectors[i] = [dim |-> 1536, val |-> <<"zero">>]
              ELSE embedRet.vectors[i] = ServiceVector(texts[i])

\* C2 witness: 300 texts, the second of three batches raises.
C2_Witness ==
    /\ embedPc = "return"
    /\ Len(texts) = 300
    /\ outcome = <<"ok", "raise", "ok">>
    /\ ~embedRet.raised
    /\ Len(embedRet.calls) = 3
    /\ \A i \in 101..200 : embedRet.vectors[i].val = <<"zero">>
    /\ \A i \in (1..100) \cup (201..300) : embedRet.vectors[i] = ServiceVector(texts[i])

\* C19: the service calls of embed_texts, read one after the other, carry
\* the texts in input order, each text in one call; every call carries
\* between 1 and 100 texts and every call but the last exactly 100; an empty
\* input causes no call.
C19_BatchesOfHundred ==
    embedPc = "return" =>
        LET calls == embedRet.calls
        IN  /\ Flatten(calls) = texts
            /\ \A b \in 1..Len(calls) : Len(calls[b]) >= 1 /\ Len(calls[b]) <= 100
            /\ \A b \in 1..(Len(calls) - 1) : Len(calls[b]) = 100
            /\ texts = <<>> => calls = <<>>

\* C19 witness: 250 texts were sent in three calls of 100, 100 and 50 texts,
\* the second call starting with text 101.
C19_Witness ==
    /\ embedPc = "return"
    /\ Len(texts) = 250
    /\ Len(embedRet.calls) = 3
    /\ Len(embedRet.calls[1]) = 100
    /\ Len(embedRet.calls[3]) = 50
    /\ embedRet.calls[2][1] = texts[101]

----------------------------------------------------------------------------
(* Claims about process_pdf_and_store_embeddings and                       *)
(* process_all_unprocessed_pdfs, checked under Spec.                       *)

\* a step that is one call of process_pdf_and_store_embeddings
CallStep == idx' = idx + 1

\* C8: a call that gets no text (the download yields no content, or the
\* extracted text is empty) reports failure to its caller, leaves the record
\* with processed = False and a non-empty processing_error, inserts no row
\* into project_embeddings and calls the embedding service not once.
C8_NoContentFails ==
    [][(CallStep /\ lastCall'.text_len = 0) =>
          LET k == lastCall'.knowledge_id
          IN  /\ lastCall'.raised
              /\ threw' = threw \cup {k}
              /\ knowledge'[k].processed = FALSE
              /\ knowledge'[k].processing_error \notin {None, ""}
              /\ project_embeddings' = project_embeddings
              /\ lastCall'.inserted = 0
              /\ lastCall'.embed_calls = 0]_vars

\* C8 witness: the download of record 2 answered None after record 1 had
\* been processed and stored; record 2 is marked failed and has no row.
C8_Witness ==
    /\ lastCall.knowledge_id # 0
    /\ lastCall.knowledge_id = 2
    /\ lastCall.fetch = "absent"
    /\ lastCall.raised
    /\ 2 \in threw
    /\ ~knowledge[2].processed
    /\ knowledge[2].processing_error = NoContentError
    /\ project_embeddings # <<>>
    /\ \A i \in 1..Len(project_embeddings) : project_embeddings[i].knowledge_id # 2

\* what C9 says of a finished scan, for the set T of records taken to have
\* thrown
ScanOutcome(T) ==
    /\ ~escaped
    /\ idx = Len(unprocessed_pdfs)
    /\ \A i \in 1..Len(unprocessed_pdfs) :
          LET k == unprocessed_pdfs[i].id
          IN  IF k \in T
              THEN ~knowledge[k].processed /\ knowledge[k].processing_error # None
              ELSE knowledge[k].processed

C10_SuccessfulTerminalState ==
    (lastCall.knowledge_id # 0 /\ ~lastCall.raised) =>
        LET rec == knowledge[lastCall.knowledge_id]
        IN  /\ rec.processed
            /\ rec.processed_at # None
            /\ rec.chunks_count = Len(lastCall.text_chunks)
            /\ rec.processing_error = None

----------------------------------------------------------------------------
(* Claims about the status updates, checked under SpecDb.                  *)

\* C11 as claimed: whenever the latest call surfaced a failure to its caller,
\* the record has processed = False and processing_error equal to the
\* description of the failure surfaced, a failure of a status update
\* included.
C11_FailureRecordedBeforeSurfaced ==
    (lastCall.knowledge_id # 0 /\ lastCall.raised) =>
        LET rec == knowledge[lastCall.knowledge_id]
        IN  /\ rec.processed = FALSE
            /\ rec.processing_error = lastCall.surfaced


\* C17 as claimed: every call sends exactly one status update for its
\* record, the success update or the failure update, never both and never
\* none, and that update is performed.
C17_ExactlyOneStatusUpdate ==
    lastCall.knowledge_id # 0 =>
        /\ Len(lastCall.updates) = 1
        /\ lastCall.applied = lastCall.updates[1]

\* the rows of the table of knowledge id k, in insertion order
StoredFor(table, k) == SelectSeq(table, LAMBDA r : r.knowledge_id = k)

\* C18: a call keeps every row of project_embeddings where it is and appends
\* one row per chunk of its record, whether or not the record has rows of an
\* earlier attempt; no other step changes the table; and the list a scan
\* starts with holds every record that is processed = False (or is empty,
\* when the query raised).
C18_RowsKeptOnReattempt ==
    [][/\ CallStep =>
             LET k == unprocessed_pdfs[idx + 1].id
                 n == Len(lastCall'.text_chunks)
             IN  /\ SubSeq(project_embeddings', 1, Len(project_embeddings))
                        = project_embeddings
                 /\ Len(StoredFor(project_embeddings', k))
                        = Len(StoredFor(project_embeddings, k)) + n
                 /\ \A i \in 1..n :
                       project_embeddings'[Len(project_embeddings) + i] =
                           EmbeddingRow(unprocessed_pdfs[idx + 1],
                                        lastCall'.text_chunks, lastCall'.vectors, i - 1)
       /\ ~CallStep => project_embeddings' = project_embeddings
       /\ (pc # "loop" /\ pc' = "loop") =>
             \/ unprocessed_pdfs' = <<>>
             \/ {unprocessed_pdfs'[i].id : i \in 1..Len(unprocessed_pdfs')}
                    = {k \in Records : ~knowledge[k].processed}
      ]_vars

\* C18 witness: the first attempt on record 1 inserted its row and left the
\* record processed = False (its success update was refused); the second
\* scan took the record again and inserted the row once more: the table
\* holds two rows of knowledge id 1 and chunk index 0, and the record is
\* still processed = False.
C18_Witness ==
    /\ scans = 2
    /\ ~knowledge[1].processed
    /\ knowledge[1].processing_error = SuccessUpdateError
    /\ LET rows == StoredFor(project_embeddings, 1)
       IN  /\ Len(rows) = 2
           /\ rows[1].chunk_index = 0
           /\ rows[2].chunk_index = 0
           /\ rows[1] = rows[2]

\* C20: a call that ends with the failure update leaves its record with
\* processed = False and processing_error set to the message, every other
\* field of the record (chunks_count and processed_at among them) as it was,
\* every other record as it was, and every row of project_embeddings in
\* place, the rows the call itself inserted before failing included.
C20_FailureUpdateFrame ==
    [][(CallStep /\ lastCall'.applied = "failure") =>
          LET k == unprocessed_pdfs[idx + 1].id
          IN  /\ knowledge'[k].processed = FALSE
              /\ knowledge'[k].processing_error = lastCall'.error
              /\ \A f \in DOMAIN knowledge[k] \ {"processed", "processing_error"} :
                    knowledge'[k][f] = knowledge[k][f]
              /\ \A j \in Records \ {k} : knowledge'[j] = knowledge[j]
              /\ SubSeq(project_embeddings', 1, Len(project_embeddings))
                     = project_embeddings
              /\ Len(project_embeddings')
                     = Len(project_embeddings) + Len(lastCall'.text_chunks)
      ]_vars

\* C20 witness: the call for record 3 inserted its two rows, its success
\* update was refused and its failure update performed; the two rows are in
\* the table, record 3 has no chunks_count and no processed_at, and record 1,
\* processed before, is as it was.
C20_Witness ==
    /\ lastCall.knowledge_id = 3
    /\ lastCall.applied = "failure"
    /\ lastCall.inserted = 2
    /\ Len(StoredFor(project_embeddings, 3)) = 2
    /\ ~knowledge[3].processed
    /\ knowledge[3].processing_error = SuccessUpdateError
    /\ knowledge[3].chunks_count = None
    /\ knowledge[3].processed_at = None
    /\ knowledge[1].processed
    /\ knowledge[1].chunks_count = 1

----------------------------------------------------------------------------
(* Claims about get_pdf_content_from_supabase, checked under SpecFetch.    *)

\* what a page adds to the text: its text and a newline, or nothing
PageContribution(page) == IF page = <<>> THEN <<>> ELSE page \o <<"\n">>

\* C12: the call always returns; when a step fails (the download raises or
\* answers None, the scratch file cannot be created or written, opening the
\* PDF or extracting a page raises) it returns the empty string, and when no
\* step fails it returns the texts of the pages in document order, each
\* followed by a newline, a page without text adding nothing.
C12_FetchReturnsTextOrEmpty ==
    fetchPc = "return" =>
        LET pages == StoredPdf(fetchPath)
        IN  IF fetchRet.outcome = "ok"
            THEN fetchRet.text =
                     Flatten([i \in 1..Len(pages) |-> PageContribution(pages[i])])
            ELSE fetchRet.text = <<>>

\* C12 witness: the call on the PDF of a blank page followed by a page "ab"
\* returned "ab\n".
C12_Witness ==
    /\ fetchPc = "return"
    /\ fetchRet.outcome = "ok"
    /\ StoredPdf(fetchPath) = <<<<>>, <<"a", "b">>>>
    /\ fetchRet.text = <<"a", "b", "\n">>

\* C13 as claimed: when the call has returned and had created the scratch
\* file, the file is not on the disk any more.
C13_ScratchFileRemoved ==
    (fetchPc = "return" /\ fetchRet.temp # "none") => fetchPath \notin tempFiles

----------------------------------------------------------------------------
(* Further claims checked under Spec.                                      *)

\* the number of pairs zip(text_chunks, embeddings) gave in the latest call
Zipped ==
    IF Len(lastCall.vectors) < Len(lastCall.text_chunks)
    THEN Len(lastCall.vectors) ELSE Len(lastCall.text_chunks)

\* the rows the latest call added to project_embeddings
RowsOfLastCall ==
    SubSeq(project_embeddings,
           Len(project_embeddings) - lastCall.inserted + 1, Len(project_embeddings))

\* C14: when inserts of rows raised in the latest call, every other pair of
\* chunk and vector was still inserted with its index, the call did not
\* raise and the record is marked processed = True.
C14_FailedInsertSkipped ==
    (lastCall.knowledge_id # 0 /\ lastCall.insert_raised # {}) =>
        LET rec == knowledge[lastCall.knowledge_id]
            rows == RowsOfLastCall
        IN  /\ ~lastCall.raised
            /\ rec.processed
            /\ Len(rows) = Zipped - Cardinality(lastCall.insert_raised)
            /\ \A i \in (0..(Zipped - 1)) \ lastCall.insert_raised :
                  \E j \in 1..Len(rows) :
                      rows[j] = EmbeddingRow(rec, lastCall.text_chunks,
                                             lastCall.vectors, i)

\* C14 witness: in the call for record 3 the insert of row 0 raised, and row
\* 1 was inserted after it; the record is marked processed.
C14_Witness ==
    /\ lastCall.knowledge_id = 3
    /\ lastCall.insert_raised = {0}
    /\ lastCall.inserted = 1
    /\ ~lastCall.raised
    /\ knowledge[3].processed
    /\ project_embeddings[Len(project_embeddings)].chunk_index = 1
    /\ project_embeddings[Len(project_embeddings)].knowledge_id = 3

\* the rows of project_embeddings of knowledge id k, in insertion order
RowsOf(k) == StoredFor(project_embeddings, k)

\* C15 as claimed: after the only attempt on a record, when it completed and
\* no insert of a row raised, the rows of the record have the chunk indexes
\* 0..n-1, n the number of chunks produced, each once, and the row of index i
\* holds the i-th chunk and the i-th vector the embedding client returned.
C15_RowsMatchChunks ==
    (scans = 1 /\ lastCall.knowledge_id # 0 /\ ~lastCall.raised
        /\ lastCall.insert_raised = {}) =>
        LET rows == RowsOf(lastCall.knowledge_id)
            n == Len(lastCall.text_chunks)
        IN  /\ Len(rows) = n
            /\ \A i \in 1..n :
                  /\ rows[i].chunk_index = i - 1
                  /\ rows[i].content_chunk = lastCall.text_chunks[i]
                  /\ rows[i].embedding = lastCall.vectors[i]

\* the ids of the records of the list returned by get_unprocessed_pdfs
QueuedIds(queue) == {queue[i].id : i \in 1..Len(queue)}

\* C16: the list a scan starts with holds records that are processed = False
\* in the table, each once; the calls of process_pdf_and_store_embeddings of
\* the scan are for the records of the list, one after the other in the
\* order of the list, and the scan ends when each has had its call; a call
\* changes no other record and adds rows of its own record only, and no
\* other step changes a record or a row.  So a record that is processed =
\* True when the scan starts is not processed again, not modified and gets
\* no row, and a scan that finds no unprocessed record changes nothing.
C16_OnlyUnprocessedOnceInOrder ==
    [][/\ (pc # "loop" /\ pc' = "loop") =>
             /\ \A i \in 1..Len(unprocessed_pdfs') :
                   /\ unprocessed_pdfs'[i] = knowledge[unprocessed_pdfs'[i].id]
                   /\ ~knowledge[unprocessed_pdfs'[i].id].processed
             /\ Cardinality(QueuedIds(unprocessed_pdfs')) = Len(unprocessed_pdfs')
             /\ idx' = 0
       /\ CallStep =>
             LET k == unprocessed_pdfs[idx + 1].id
                 added == SubSeq(project_embeddings', Len(project_embeddings) + 1,
                                 Len(project_embeddings'))
             IN  /\ pc = "loop"
                 /\ lastCall'.knowledge_id = k
                 /\ unprocessed_pdfs' = unprocessed_pdfs
                 /\ \A j \in Records \ {k} : knowledge'[j] = knowledge[j]
                 /\ SubSeq(project_embeddings', 1, Len(project_embeddings))
                        = project_embeddings
                 /\ \A i \in 1..Len(added) : added[i].knowledge_id = k
       /\ ~CallStep =>
             /\ knowledge' = knowledge
             /\ project_embeddings' = project_embeddings
             /\ lastCall' = lastCall
       /\ (pc = "loop" /\ pc' = "done") => idx = Len(unprocessed_pdfs)
      ]_vars

\* C16 witness: a second scan has ended; record 1 was processed = True when
\* it started, so the list held records 2 and 3 only, each had its call, and
\* record 1 still has the one row of the first scan.
C16_Witness ==
    /\ scans = 2
    /\ pc = "done"
    /\ knowledge[1].processed
    /\ QueuedIds(unprocessed_pdfs) = {2, 3}
    /\ idx = 2
    /\ lastCall.knowledge_id = 3
    /\ Len(RowsOf(1)) = 1

====
